---- MODULE Spec2Model ----
(***************************************************************************)
(* Model of mcp_postgres/server.py: the four MCP handlers of               *)
(* PostgresServer, the psycopg2 connection pool they borrow from and the   *)
(* PostgreSQL session each borrowed connection talks to.                   *)
(*                                                                         *)
(* No handler contains an await, so the event loop runs every invocation   *)
(* to completion: one action per handler invocation.  Each action records  *)
(* in `last` what the invocation did (the calls it made on the pool and on *)
(* the connection, in order) and how it ended.                             *)
(*                                                                         *)
(* `server` is the life of the process: main() constructing the            *)
(* PostgresServer, the request loop, and the cleanup in main()'s finally.  *)
(* `inflight` counts, per connection, the borrowers that hold it; it stays *)
(* zero between handler invocations and is used by PoolSpec, where the     *)
(* pool is driven by borrowers that overlap.                               *)
(*                                                                         *)
(* Strings are sequences of one-character strings, so that strip(),        *)
(* lower(), startswith() and split() are computed as Python computes them. *)
(***************************************************************************)
EXTENDS Integers, Sequences, FiniteSets, TLC

VARIABLES pool, conns, tables, dbUp, last, server, inflight

vars == <<pool, conns, tables, dbUp, last, server, inflight>>

----------------------------------------------------------------------------
(* Python str operations *)

Whitespace == {" ", "\t"}

LowerLetters == <<"a","b","c","d","e","f","g","h","i","j","k","l","m",
                  "n","o","p","q","r","s","t","u","v","w","x","y","z">>
UpperLetters == <<"A","B","C","D","E","F","G","H","I","J","K","L","M",
                  "N","O","P","Q","R","S","T","U","V","W","X","Y","Z">>

\* str.lower() on one character
LowerChar(ch) ==
    IF \E i \in 1..Len(UpperLetters) : UpperLetters[i] = ch
    THEN LowerLetters[CHOOSE i \in 1..Len(UpperLetters) : UpperLetters[i] = ch]
    ELSE ch

\* str.lower()
Lower(s) == [i \in 1..Len(s) |-> LowerChar(s[i])]

RECURSIVE LStrip(_)
LStrip(s) == IF s # <<>> /\ Head(s) \in Whitespace THEN LStrip(Tail(s)) ELSE s

RECURSIVE RStrip(_)
RStrip(s) ==
    IF s # <<>> /\ s[Len(s)] \in Whitespace THEN RStrip(SubSeq(s, 1, Len(s) - 1)) ELSE s

\* str.strip()
Strip(s) == RStrip(LStrip(s))

\* str.startswith(p)
StartsWith(s, p) == Len(s) >= Len(p) /\ SubSeq(s, 1, Len(p)) = p

\* str.split(sep) for a one-character separator: always at least one piece
RECURSIVE Split(_, _)
Split(s, sep) ==
    IF \A i \in 1..Len(s) : s[i] # sep
    THEN <<s>>
    ELSE LET i == CHOOSE j \in 1..Len(s) :
                      s[j] = sep /\ \A k \in 1..(j - 1) : s[k] # sep
         IN  <<SubSeq(s, 1, i - 1)>> \o Split(SubSeq(s, i + 1, Len(s)), sep)

\* dict.get(key, default)
DictGet(d, key, default) == IF key \in DOMAIN d THEN d[key] ELSE default

----------------------------------------------------------------------------
(* Literals of the code and of the requests *)

kwSelect == <<"s","e","l","e","c","t">>
kwCommit == <<"c","o","m","m","i","t">>
kwDrop   == <<"d","r","o","p">>
kwInto   == <<"i","n","t","o">>
kwWith   == <<"w","i","t","h">>

\* table names of the public schema
tUsers == <<"u">>
tLogs  == <<"l">>
tCopy  == <<"c">>
tSlash == <<"a","/","b">>
TableNames == {tUsers, tLogs, tCopy, tSlash}

sqlBlank        == <<" ","\t">>
sqlSelect       == <<"s","e","l","e","c","t"," ","1">>
sqlPaddedSelect == <<" ","\t","S","e","L","E","C","T"," ","1"," ">>
sqlDropUsers    == <<"d","r","o","p"," ","t","a","b","l","e"," ","u">>
sqlWithSelect   == <<"w","i","t","h"," ","q"," ","a","s"," ","(","s","e","l","e","c","t"," ","1",")",
                     " ","s","e","l","e","c","t"," ","1">>
sqlSelectInto   == <<"s","e","l","e","c","t"," ","1"," ","i","n","t","o"," ","c">>
sqlSelectCommit == <<"s","e","l","e","c","t"," ","1",";","c","o","m","m","i","t">>
sqlCommitDrop   == <<"s","e","l","e","c","t"," ","1",";","c","o","m","m","i","t",";",
                     "d","r","o","p"," ","t","a","b","l","e"," ","u">>

\* the sql arguments a caller sends
SqlInputs ==
    { <<>>, sqlBlank, sqlSelect, sqlPaddedSelect, sqlDropUsers, sqlWithSelect,
      sqlSelectInto, sqlSelectCommit, sqlCommitDrop,
      <<"s","e","l","e","c","t","x">>,
      <<"s","e","l">>,
      <<"x"," ","s","e","l","e","c","t"," ","1">>,
      <<"(","s","e","l","e","c","t"," ","1",")">> }

\* the arguments dict of call-tool: with or without the key "sql"
NoArguments == [k \in {} |-> <<>>]
ArgumentDicts == {NoArguments} \cup {[k \in {"sql"} |-> s] : s \in SqlInputs}

ToolNames == {"query", "delete_all"}

uriUsers     == <<"p","o","s","t","g","r","e","s",":","/","/","h","/","u","/","s","c","h","e","m","a">>
uriLogs      == <<"p","o","s","t","g","r","e","s",":","/","/","h","/","l","/","s","c","h","e","m","a">>
uriOnePart   == <<"p","o","s","t","g","r","e","s",":","/","/","h","/","s","c","h","e","m","a">>
uriHostOnly  == <<"p","o","s","t","g","r","e","s",":","/","/","h">>
uriRelative  == <<"u","/","s","c","h","e","m","a">>
uriNoSlash   == <<"u">>
uriSlash     == <<"p","o","s","t","g","r","e","s",":","/","/","h","/","a","/","b","/",
                  "s","c","h","e","m","a">>
uriOtherHost == <<"p","o","s","t","g","r","e","s",":","/","/","d","b","/","u","/",
                  "s","c","h","e","m","a">>

\* the uri arguments a caller sends to read-resource
UriInputs == {uriUsers, uriLogs, uriSlash, uriOtherHost, uriOnePart, uriHostOnly,
              uriRelative, uriNoSlash, <<>>}

\* SimpleConnectionPool(1, 5, ...)
minconn == 1
maxconn == 5
\* the connection objects the process can tell apart: one more than the
\* pool may hold, so that a connection beyond maxconn can be represented
ConnIds == 1..(maxconn + 1)

\* The round trip of the invocation at which its connection is lost
\* (0: the connection survives the invocation).  Round trips are the
\* cur.execute calls of the handler; a handler makes at most three.
FaultSteps == {0, 1, 2, 3}

----------------------------------------------------------------------------
(* The PostgreSQL session behind one psycopg2 connection.                  *)
(*   st   : "none" (never opened), "open", "broken" (the server side is    *)
(*          gone, the client has not noticed yet), "closed"                *)
(*   tx   : the server's transaction status                                *)
(*   ro   : the open transaction is READ ONLY                              *)
(*   view : the tables as the open transaction sees them (its uncommitted  *)
(*          changes included); {} when no transaction is open              *)

NoConn     == [st |-> "none",   tx |-> "idle", ro |-> FALSE, view |-> {}]
FreshConn  == [st |-> "open",   tx |-> "idle", ro |-> FALSE, view |-> {}]
ClosedConn == [st |-> "closed", tx |-> "idle", ro |-> FALSE, view |-> {}]

Psycopg2Errors == {"PoolError", "OperationalError", "ProgrammingError", "InternalError"}

\* the statements of one query string: cur.execute(sql) sends the text
\* unchanged, as one simple-protocol message, and the server runs each of
\* its ';'-separated statements in turn.  A COMMIT among them ends the
\* transaction the handler opened.
RECURSIVE NonEmpty(_)
NonEmpty(ps) ==
    IF ps = <<>> THEN <<>>
    ELSE IF Strip(Head(ps)) = <<>> THEN NonEmpty(Tail(ps))
    ELSE <<Strip(Head(ps))>> \o NonEmpty(Tail(ps))

Statements(text) == NonEmpty(Split(text, ";"))

\* what the server takes a statement for, from its lower-cased text p and
\* the words ws of p
KindOfWords(p, ws) ==
    IF Head(ws) = kwSelect
    THEN IF \E i \in 1..Len(ws) : ws[i] = kwInto THEN "select_into" ELSE "select"
    ELSE IF Head(ws) = kwWith \/ Head(p) = "(" THEN "select"
    ELSE IF Head(ws) = kwCommit THEN "commit"
    ELSE IF Head(ws) = kwDrop THEN "drop"
    ELSE "syntax"

StatementKind(stmt) == KindOfWords(Lower(stmt), Split(Lower(stmt), " "))

\* the change a writing statement makes to the tables it sees
WriteEffect(kind, view) ==
    IF kind = "drop" THEN view \ {tUsers} ELSE view \cup {tCopy}

\* one statement of a message, on the session state
\* s = [tx, ro, view, tables, res, err]
StatementStep(kind, s) ==
    IF s.tx = "inerror"
    THEN IF kind = "commit"
         THEN [s EXCEPT !.tx = "idle", !.ro = FALSE, !.view = s.tables, !.res = "norows"]
         ELSE [s EXCEPT !.res = "error", !.err = "InternalError"]
    ELSE IF kind = "select" THEN [s EXCEPT !.res = "rows"]
    ELSE IF kind = "commit"
         THEN [s EXCEPT !.tables = s.view, !.tx = "idle", !.ro = FALSE, !.res = "norows"]
    ELSE \* a writing statement
         IF s.ro
         THEN [s EXCEPT !.res = "error", !.err = "InternalError",
                        !.tx = IF s.tx = "intrans" THEN "inerror" ELSE "idle"]
         ELSE [s EXCEPT !.view = WriteEffect(kind, s.view), !.res = "norows"]

RECURSIVE RunStatements(_, _)
RunStatements(stmts, s) ==
    IF stmts = <<>> \/ s.res = "error" THEN s
    ELSE RunStatements(Tail(stmts), StatementStep(StatementKind(Head(stmts)), s))

\* the session state a message starts from
MessageStart(cr, tabs) ==
    [tx |-> cr.tx, ro |-> cr.ro, tables |-> tabs, res |-> "norows", err |-> "none",
     view |-> IF cr.tx = "intrans" THEN cr.view ELSE tabs]

\* the text is parsed before anything runs
RunParsed(stmts, s) ==
    IF stmts = <<>> \/ \E i \in 1..Len(stmts) : StatementKind(stmts[i]) = "syntax"
    THEN [s EXCEPT !.res = "error", !.err = "ProgrammingError",
                   !.tx = IF s.tx = "idle" THEN "idle" ELSE "inerror"]
    ELSE RunStatements(stmts, s)

\* the statements that follow a COMMIT run in an implicit transaction, which
\* commits when the message ends without error
MessageEnd(s) ==
    [conn   |-> [st |-> "open", tx |-> s.tx, ro |-> s.ro,
                 view |-> IF s.tx = "intrans" THEN s.view ELSE {}],
     tables |-> IF s.tx = "idle" /\ s.res # "error" THEN s.view ELSE s.tables,
     res |-> s.res, err |-> s.err, rows |-> {}]

RunMessage(cr, tabs, text) == MessageEnd(RunParsed(Statements(text), MessageStart(cr, tabs)))

\* the requests the handlers send
BeginReadOnly == [kind |-> "begin_ro", text |-> <<>>]
Rollback      == [kind |-> "rollback", text |-> <<>>]
CatalogQuery  == [kind |-> "catalog",  text |-> <<>>]
SqlQuery(sql) == [kind |-> "sql",      text |-> sql]

\* psycopg2 (autocommit off) opens a transaction before the first statement
\* of a session that has none
ImplicitBegin(cr, tabs) ==
    IF cr.tx = "idle" THEN [cr EXCEPT !.tx = "intrans", !.ro = FALSE, !.view = tabs] ELSE cr

\* a request on a live session whose transaction is open (begun)
ServerExecute(begun, tabs, req) ==
    IF req.kind = "rollback"
    THEN [conn |-> FreshConn, tables |-> tabs, res |-> "norows", err |-> "none", rows |-> {}]
    ELSE IF req.kind = "sql" THEN RunMessage(begun, tabs, req.text)
    ELSE IF begun.tx = "inerror"
    THEN [conn |-> begun, tables |-> tabs, res |-> "error", err |-> "InternalError",
          rows |-> {}]
    ELSE IF req.kind = "begin_ro"
    THEN [conn |-> [begun EXCEPT !.ro = TRUE], tables |-> tabs, res |-> "norows",
          err |-> "none", rows |-> {}]
    ELSE [conn |-> begun, tables |-> tabs, res |-> "rows", err |-> "none",
          rows |-> begun.view]

\* One cur.execute(...) on connection record cr.
\* `lost`: the connection is lost at this round trip.
Execute(cr, tabs, req, lost) ==
    IF lost \/ cr.st # "open"
    THEN [conn |-> ClosedConn, tables |-> tabs, res |-> "error",
          err |-> "OperationalError", rows |-> {}]
    ELSE ServerExecute(ImplicitBegin(cr, tabs), tabs, req)

----------------------------------------------------------------------------
(* psycopg2.pool.SimpleConnectionPool *)

\* the connections pool p holds, idle or checked out
Pooled(p) == p.used \cup {p.idle[i] : i \in 1..Len(p.idle)}

\* the identities free for a new connection object: not open, and not a
\* closed connection that the pool still holds
FreeConnIds(p, cs) == {c \in ConnIds : cs[c].st \in {"none", "closed"} /\ c \notin Pooled(p)}

\* the connection object a new connect() yields
NewConnId(p, cs) ==
    CHOOSE c \in FreeConnIds(p, cs) : \A d \in FreeConnIds(p, cs) : c <= d

\* the idle connection handed out without leaving the idle list
HandOut_KeepIdle(p, cs, c, fresh) ==
    [ok |-> TRUE, err |-> "none", conn |-> c,
     conns |-> IF fresh THEN [cs EXCEPT ![c] = FreshConn] ELSE cs,
     pool |-> [p EXCEPT !.used = p.used \cup {c}]]

\* the pool and the connections once connection c is handed out
HandOut(p, cs, c, fresh) ==
    [ok |-> TRUE, err |-> "none", conn |-> c,
     conns |-> IF fresh THEN [cs EXCEPT ![c] = FreshConn] ELSE cs,
     pool |-> [p EXCEPT !.idle = IF fresh THEN p.idle ELSE SubSeq(p.idle, 1, Len(p.idle) - 1),
                        !.used = p.used \cup {c}]]

\* a pool that connects whenever it has no idle connection
getconn_NoLimit(p, cs, up) ==
    IF p.closed
    THEN [ok |-> FALSE, err |-> "PoolError", conn |-> 0, conns |-> cs, pool |-> p]
    ELSE IF p.idle # <<>>
    THEN HandOut(p, cs, p.idle[Len(p.idle)], FALSE)
    ELSE IF ~up
    THEN [ok |-> FALSE, err |-> "OperationalError", conn |-> 0, conns |-> cs, pool |-> p]
    ELSE HandOut(p, cs, NewConnId(p, cs), TRUE)

\* pool.getconn(): refused once the pool is closed; an idle connection,
\* else a new one below maxconn
getconn(p, cs, up) ==
    IF p.closed
    THEN [ok |-> FALSE, err |-> "PoolError", conn |-> 0, conns |-> cs, pool |-> p]
    ELSE IF p.idle # <<>>
    THEN HandOut(p, cs, p.idle[Len(p.idle)], FALSE)
    ELSE IF Cardinality(p.used) = maxconn
    THEN [ok |-> FALSE, err |-> "PoolError", conn |-> 0, conns |-> cs, pool |-> p]
    ELSE IF ~up
    THEN [ok |-> FALSE, err |-> "OperationalError", conn |-> 0, conns |-> cs, pool |-> p]
    ELSE HandOut(p, cs, NewConnId(p, cs), TRUE)

\* pool.putconn(conn): below minconn idle connections an open connection is
\* rolled back if it is in a transaction and kept; a closed one is discarded;
\* at minconn or above the connection is closed.
\* The return itself is taken to succeed, as the pool's contract has it:
\* connections are lost at the handler's own round trips only.
putconn(p, cs, c) ==
    IF Len(p.idle) < minconn /\ cs[c].st # "closed"
    THEN [pool  |-> [p EXCEPT !.idle = Append(p.idle, c), !.used = p.used \ {c}],
          conns |-> [cs EXCEPT ![c] = [@ EXCEPT !.tx = "idle", !.ro = FALSE, !.view = {}]]]
    ELSE [pool  |-> [p EXCEPT !.used = p.used \ {c}],
          conns |-> [cs EXCEPT ![c] = ClosedConn]]

----------------------------------------------------------------------------
(* What a handler invocation works on: w = [pool, conns, tables, trace].   *)
(* trace is the sequence of the calls the invocation made on the pool and  *)
(* on its connection.                                                      *)

\* err is "none" when the call succeeded
Event(op, c, err, arg) == [op |-> op, conn |-> c, ok |-> err = "none", err |-> err, arg |-> arg]

Return(v) == [kind |-> "return", value |-> v]
Raise(e)  == [kind |-> "raise",  value |-> e]

Outcome(w, c, outcome, info) == [w |-> w, conn |-> c, outcome |-> outcome, info |-> info]

Acquired(w, g) ==
    [ok |-> g.ok, err |-> g.err, conn |-> g.conn,
     w  |-> [w EXCEPT !.pool = g.pool, !.conns = g.conns,
                      !.trace = Append(w.trace, Event("getconn", g.conn, g.err, <<>>))]]

\* conn = self.pool.getconn()
Acquire(w) == Acquired(w, getconn(w.pool, w.conns, dbUp))

Released(w, c, q) ==
    [w EXCEPT !.pool = q.pool, !.conns = q.conns,
              !.trace = Append(w.trace, Event("putconn", c, "none", <<>>))]

\* self.pool.putconn(conn)
Release(w, c) == Released(w, c, putconn(w.pool, w.conns, c))

Sent(w, c, op, arg, r) ==
    [ok |-> r.res # "error", res |-> r.res, err |-> r.err, rows |-> r.rows,
     w  |-> [w EXCEPT !.conns = [w.conns EXCEPT ![c] = r.conn],
                      !.tables = r.tables,
                      !.trace = Append(w.trace, Event(op, c, r.err, arg))]]

\* cur.execute(...) on the cursor of connection c
Send(w, c, op, req, lost, arg) == Sent(w, c, op, arg, Execute(w.conns[c], w.tables, req, lost))

\* `conn = None` bound before the try block: the cleanup calls putconn
\* with no connection when getconn raised, and the pool refuses it
FinallyPutconn_NoneConn(r) ==
    IF r.conn = 0
    THEN [r EXCEPT !.w.trace = Append(@, Event("putconn", 0, "PoolError", <<>>)),
                   !.outcome = Raise("PoolError")]
    ELSE [r EXCEPT !.w = Release(r.w, r.conn)]

\* a cleanup that runs on the normal path only
FinallyPutconn_OnReturnOnly(r) ==
    IF r.conn = 0
    THEN [r EXCEPT !.outcome = Raise("UnboundLocalError")]
    ELSE IF r.outcome.kind = "raise" THEN r
    ELSE [r EXCEPT !.w = Release(r.w, r.conn)]

\* finally: self.pool.putconn(conn).  When getconn raised (or was never
\* reached) the local `conn` is unbound: evaluating the argument raises
\* UnboundLocalError, which replaces whatever the handler was about to
\* return or raise, and putconn is not called.
FinallyPutconn(r) ==
    IF r.conn = 0
    THEN [r EXCEPT !.outcome = Raise("UnboundLocalError")]
    ELSE [r EXCEPT !.w = Release(r.w, r.conn)]

----------------------------------------------------------------------------
(* handle_list_resources *)

\* self.config.host
Host == <<"h">>

\* f"postgres://{self.config.host}/{table[0]}/schema"
ResourceUri(h, t) ==
    <<"p","o","s","t","g","r","e","s",":","/","/">> \o h \o <<"/">> \o t
        \o <<"/","s","c","h","e","m","a">>

\* tables = cur.fetchall(); return [types.Resource(...) for table in tables]
ListResourcesResult(c, q) ==
    IF ~q.ok
    THEN Outcome(q.w, c, Raise(q.err), {})
    ELSE Outcome(q.w, c, Return("resources"), {ResourceUri(Host, t) : t \in q.rows})

\* with conn.cursor() as cur: cur.execute(<the tables of schema public>)
ListResourcesQuery(g, dieAt) ==
    IF ~g.ok
    THEN Outcome(g.w, 0, Raise(g.err), {})
    ELSE ListResourcesResult(g.conn,
             Send(g.w, g.conn, "catalog_tables", CatalogQuery, dieAt = 1, <<>>))

\* the try block
ListResourcesTry(w, dieAt) == ListResourcesQuery(Acquire(w), dieAt)

\* except psycopg2.Error as e: log; raise
ListResourcesExcept(r) == r

handle_list_resources(w, dieAt) ==
    FinallyPutconn(ListResourcesExcept(ListResourcesTry(w, dieAt)))

----------------------------------------------------------------------------
(* handle_read_resource *)

\* parts[-2]: IndexError when there is one part only
SecondToLast(parts) ==
    IF Len(parts) < 2
    THEN [ok |-> FALSE, name |-> <<>>]
    ELSE [ok |-> TRUE, name |-> parts[Len(parts) - 1]]

\* table_name = uri.split('/')[-2]
TableNameOf(uri) == SecondToLast(Split(uri, "/"))

\* return str({'columns': [...], 'constraints': [...]})
ReadResourceResult(table_name, c, columns, q) ==
    IF ~q.ok
    THEN Outcome(q.w, c, Raise(q.err), {})
    ELSE Outcome(q.w, c, Return("schema"),
                 {[table |-> table_name, found |-> table_name \in columns]})

\* columns = cur.fetchall(); cur.execute(<the constraints of table_name>)
ReadResourceConstraints(table_name, c, q, dieAt) ==
    IF ~q.ok
    THEN Outcome(q.w, c, Raise(q.err), {})
    ELSE ReadResourceResult(table_name, c, q.rows,
             Send(q.w, c, "catalog_constraints", CatalogQuery, dieAt = 2, table_name))

\* with conn.cursor() as cur: cur.execute(<the columns of table_name>)
ReadResourceColumns(table_name, g, dieAt) ==
    IF ~g.ok
    THEN Outcome(g.w, 0, Raise(g.err), {})
    ELSE ReadResourceConstraints(table_name, g.conn,
             Send(g.w, g.conn, "catalog_columns", CatalogQuery, dieAt = 1, table_name),
             dieAt)

\* conn = self.pool.getconn(), reached when the table name was extracted
ReadResourceGetconn(w, t, dieAt) ==
    IF ~t.ok
    THEN Outcome(w, 0, Raise("IndexError"), {})
    ELSE ReadResourceColumns(t.name, Acquire(w), dieAt)

\* the try block
ReadResourceTry(w, uri, dieAt) == ReadResourceGetconn(w, TableNameOf(uri), dieAt)

\* the except clause of call-tool: the error becomes the result
ReadResourceExcept_Swallow(r) ==
    IF r.outcome.kind = "raise" /\ r.outcome.value \in Psycopg2Errors
    THEN [r EXCEPT !.outcome = Return("schema")]
    ELSE r

\* except psycopg2.Error as e: log; raise
ReadResourceExcept(r) == r

handle_read_resource(w, uri, dieAt) ==
    FinallyPutconn(ReadResourceExcept(ReadResourceTry(w, uri, dieAt)))

----------------------------------------------------------------------------
(* handle_list_tools: a static list, no pool, no database *)

\* the tool list answered with a pooled connection in hand, as the other
\* handlers answer
ListToolsHolding(g) == Outcome(g.w, IF g.ok THEN g.conn ELSE 0, Return("tools"), {"query"})

handle_list_tools_Pooled(w) == FinallyPutconn(ListToolsHolding(Acquire(w)))

handle_list_tools(w) == Outcome(w, 0, Return("tools"), {"query"})

----------------------------------------------------------------------------
(* handle_call_tool *)

\* the prefix compared without lower()
ValidateSql_CaseSensitive(name, sql) ==
    IF name # "query" THEN [ok |-> FALSE, err |-> "UnknownTool", sql |-> <<>>]
    ELSE IF sql = <<>> THEN [ok |-> FALSE, err |-> "EmptyQuery", sql |-> sql]
    ELSE IF ~StartsWith(sql, kwSelect)
    THEN [ok |-> FALSE, err |-> "NonSelectQuery", sql |-> sql]
    ELSE [ok |-> TRUE, err |-> "none", sql |-> sql]

\* no prefix check: the read-only transaction alone guards the database
ValidateSql_NoPrefixCheck(name, sql) ==
    IF name # "query" THEN [ok |-> FALSE, err |-> "UnknownTool", sql |-> <<>>]
    ELSE IF sql = <<>> THEN [ok |-> FALSE, err |-> "EmptyQuery", sql |-> sql]
    ELSE [ok |-> TRUE, err |-> "none", sql |-> sql]

\* the sql argument checked before the tool name
ValidateSql_SqlFirst(name, sql) ==
    IF sql = <<>> THEN [ok |-> FALSE, err |-> "EmptyQuery", sql |-> sql]
    ELSE IF ~StartsWith(Lower(sql), kwSelect)
    THEN [ok |-> FALSE, err |-> "NonSelectQuery", sql |-> sql]
    ELSE IF name # "query" THEN [ok |-> FALSE, err |-> "UnknownTool", sql |-> <<>>]
    ELSE [ok |-> TRUE, err |-> "none", sql |-> sql]

\* if name != "query": raise; if not sql: raise; if not
\* sql.lower().startswith("select"): raise.  The three ValueErrors are named
\* after what they report.
ValidateSql(name, sql) ==
    IF name # "query" THEN [ok |-> FALSE, err |-> "UnknownTool", sql |-> <<>>]
    ELSE IF sql = <<>> THEN [ok |-> FALSE, err |-> "EmptyQuery", sql |-> sql]
    ELSE IF ~StartsWith(Lower(sql), kwSelect)
    THEN [ok |-> FALSE, err |-> "NonSelectQuery", sql |-> sql]
    ELSE [ok |-> TRUE, err |-> "none", sql |-> sql]

\* the sql argument checked without strip()
ValidateCallTool_NoStrip(name, arguments) ==
    ValidateSql(name, DictGet(arguments, "sql", <<>>))

\* sql = arguments.get("sql", "").strip(), and the checks
ValidateCallTool(name, arguments) ==
    ValidateSql(name, Strip(DictGet(arguments, "sql", <<>>)))

\* finally: cur.execute("ROLLBACK"), with the return or the exception that is
\* pending; an exception of the finally block replaces it
QueryFinally(c, pending, r) ==
    Outcome(r.w, c, IF r.ok THEN pending ELSE Raise(r.err), {})

\* the rollback as the last statement of the block instead of a finally
QueryFetch_NoFinally(c, e, dieAt) ==
    IF ~e.ok
    THEN Outcome(e.w, c, Raise(e.err), {})
    ELSE QueryFinally(c,
             IF e.res = "rows" THEN Return("result") ELSE Raise("ProgrammingError"),
             Send([e.w EXCEPT !.trace = Append(@, Event("fetchall", c,
                                   IF e.res = "rows" THEN "none" ELSE "ProgrammingError",
                                   <<>>))],
                  c, "rollback", Rollback, dieAt = 3, <<>>))

\* the block without any rollback: the transaction is left to the pool
QueryFetch_NoRollback(c, e, dieAt) ==
    IF ~e.ok
    THEN Outcome(e.w, c, Raise(e.err), {})
    ELSE Outcome([e.w EXCEPT !.trace = Append(@, Event("fetchall", c,
                                   IF e.res = "rows" THEN "none" ELSE "ProgrammingError",
                                   <<>>))],
                 c, IF e.res = "rows" THEN Return("result") ELSE Raise("ProgrammingError"),
                 {})

\* results = cur.fetchall() ... return [types.TextContent(...)];
\* fetchall raises ProgrammingError when the last statement returned no
\* result set
QueryFetch(c, e, dieAt) ==
    IF ~e.ok
    THEN QueryFinally(c, Raise(e.err), Send(e.w, c, "rollback", Rollback, dieAt = 3, <<>>))
    ELSE QueryFinally(c,
             IF e.res = "rows" THEN Return("result") ELSE Raise("ProgrammingError"),
             Send([e.w EXCEPT !.trace = Append(@, Event("fetchall", c,
                                   IF e.res = "rows" THEN "none" ELSE "ProgrammingError",
                                   <<>>))],
                  c, "rollback", Rollback, dieAt = 3, <<>>))

\* the inner try block, entered when BEGIN TRANSACTION READ ONLY succeeded:
\* cur.execute(sql)
QueryExecute(c, b, sql, dieAt) ==
    IF ~b.ok
    THEN Outcome(b.w, c, Raise(b.err), {})
    ELSE QueryFetch(c, Send(b.w, c, "execute", SqlQuery(sql), dieAt = 2, sql), dieAt)

\* with conn.cursor() as cur: cur.execute("BEGIN TRANSACTION READ ONLY")
QueryInTransaction(g, sql, dieAt) ==
    IF ~g.ok
    THEN Outcome(g.w, 0, Raise(g.err), {})
    ELSE QueryExecute(g.conn,
             Send(g.w, g.conn, "begin_ro", BeginReadOnly, dieAt = 1, <<>>), sql, dieAt)

\* the try block
CallToolTry(w, sql, dieAt) == QueryInTransaction(Acquire(w), sql, dieAt)

\* the except clause of the schema handlers: log and raise again
CallToolExcept_Reraise(r) == r

\* except psycopg2.Error as e: log; return the message as text
CallToolExcept(r) ==
    IF r.outcome.kind = "raise" /\ r.outcome.value \in Psycopg2Errors
    THEN [r EXCEPT !.outcome = Return("error_text")]
    ELSE r

\* the handler without its outer finally block
CallToolChecked_NoFinally(w, v, dieAt) ==
    IF ~v.ok
    THEN Outcome(w, 0, Raise(v.err), {})
    ELSE CallToolExcept(CallToolTry(w, v.sql, dieAt))

\* the handler once its arguments are checked
CallToolChecked(w, v, dieAt) ==
    IF ~v.ok
    THEN Outcome(w, 0, Raise(v.err), {})
    ELSE FinallyPutconn(CallToolExcept(CallToolTry(w, v.sql, dieAt)))

handle_call_tool(w, name, arguments, dieAt) ==
    CallToolChecked(w, ValidateCallTool(name, arguments), dieAt)

----------------------------------------------------------------------------
(* PostgresServer.__init__, cleanup and main                               *)

NoPool == [idle |-> <<>>, used |-> {}, closed |-> FALSE]

\* what __init__ does, in order: log is the sequence of its steps
Constructed(ok, err, log, p, cs) ==
    [ok |-> ok, err |-> err, log |-> log, pool |-> p, conns |-> cs]

\* self.server = Server("postgres-server"); self._setup_handlers()
SetupHandlers(log, p, cs) ==
    Constructed(TRUE, "none", Append(log, "handlers_registered"), p, cs)

\* self.pool = SimpleConnectionPool(1, 5, **conn_params): the constructor
\* opens the minconn connections; except psycopg2.Error: log; raise
CreatePool(log, up, cs) ==
    IF ~up
    THEN Constructed(FALSE, "OperationalError", Append(log, "pool_failed"), NoPool, cs)
    ELSE SetupHandlers(Append(log, "pool_created"),
                       [NoPool EXCEPT !.idle = <<NewConnId(NoPool, cs)>>],
                       [cs EXCEPT ![NewConnId(NoPool, cs)] = FreshConn])

\* the constructor without its test connection
PostgresServer_init_NoProbe(up, upAfterProbe, cs) ==
    CreatePool(<<>>, up /\ upAfterProbe, cs)

\* test_conn = psycopg2.connect(**conn_params); test_conn.close(); then the
\* pool.  `up`: the database accepts connections when the probe is made;
\* `upAfterProbe`: it still does when the pool opens its first connection.
PostgresServer_init(up, upAfterProbe, cs) ==
    IF ~up
    THEN Constructed(FALSE, "OperationalError", <<"probe_failed">>, NoPool, cs)
    ELSE CreatePool(<<"probe_opened", "probe_closed">>, upAfterProbe, cs)

\* pool.closeall(): every connection of the pool, idle or checked out, is
\* closed and the pool refuses further calls
closeall(p, cs) ==
    [pool  |-> [p EXCEPT !.closed = TRUE],
     conns |-> [c \in ConnIds |->
                   IF c \in Pooled(p)
                   THEN ClosedConn ELSE cs[c]]]

Drained(srv, d) ==
    [server |-> [srv EXCEPT !.drains = srv.drains + 1], pool |-> d.pool, conns |-> d.conns]

\* def cleanup(self): if hasattr(self, 'pool'): self.pool.closeall()
cleanup(srv, p, cs) ==
    IF srv.hasPool
    THEN Drained(srv, closeall(p, cs))
    ELSE [server |-> srv, pool |-> p, conns |-> cs]

\* the cleanup after the request loop instead of in a finally block
MainFinally_OnReturnOnly(path, srv, p, cs) ==
    IF srv.constructed /\ path \in {"normal", "interrupt"}
    THEN cleanup(srv, p, cs)
    ELSE [server |-> srv, pool |-> p, conns |-> cs]

\* main(): finally: if 'server' in locals(): server.cleanup().  path is the
\* way the try block was left.
MainFinally(path, srv, p, cs) ==
    IF srv.constructed
    THEN cleanup(srv, p, cs)
    ELSE [server |-> srv, pool |-> p, conns |-> cs]

\* the ways await server.run() ends: the transport is closed, the process
\* is interrupted, the loop raises
ExitPaths == {"normal", "interrupt", "error"}

\* main(): server = PostgresServer(config), bound only when the constructor
\* returned
ServerConstructed(srv, i) ==
    [srv EXCEPT !.log = i.log,
                !.constructed = i.ok,
                !.hasPool = i.ok,
                !.registered = i.ok,
                !.phase = IF i.ok THEN "running" ELSE "aborted",
                !.exit = IF i.ok THEN "none" ELSE i.err]

----------------------------------------------------------------------------
(* The state machine *)

World == [pool |-> pool, conns |-> conns, tables |-> tables, trace |-> <<>>]

NoInput == [name |-> "", arguments |-> NoArguments, uri |-> <<>>]

\* the public schema when the process starts
InitialTables == {{tUsers, tLogs}, {tUsers, tLogs, tSlash}}

\* the process is started: nothing is constructed yet
Init ==
    /\ pool = NoPool
    /\ conns = [c \in ConnIds |-> NoConn]
    /\ tables \in InitialTables
    /\ dbUp \in BOOLEAN
    /\ last = [handler |-> "none", input |-> NoInput, outcome |-> Return("none"),
               trace |-> <<>>, before |-> tables, poolBefore |-> NoPool, poolAfter |-> NoPool,
               info |-> {}]
    /\ server = [phase |-> "starting", log |-> <<>>, constructed |-> FALSE,
                 hasPool |-> FALSE, registered |-> FALSE, drains |-> 0, exit |-> "none"]
    /\ inflight = [c \in ConnIds |-> 0]

Started(f, upAfterProbe) ==
    /\ server' = f.server
    /\ pool' = f.pool
    /\ conns' = f.conns
    /\ dbUp' = (dbUp /\ upAfterProbe)
    /\ UNCHANGED <<tables, last, inflight>>

\* server = PostgresServer(config): when the constructor returns, main()
\* goes on to await server.run(); when it raises, main() is left through
\* its finally block
StartedWith(i, upAfterProbe) ==
    Started(IF i.ok
            THEN [server |-> ServerConstructed(server, i), pool |-> i.pool,
                  conns |-> i.conns]
            ELSE MainFinally(i.err, ServerConstructed(server, i), i.pool, i.conns),
            upAfterProbe)

\* main() up to the request loop
Startup ==
    /\ server.phase = "starting"
    /\ \E upAfterProbe \in BOOLEAN :
           StartedWith(PostgresServer_init(dbUp, upAfterProbe, conns), upAfterProbe)

Stopped(path, f) ==
    /\ server' = [f.server EXCEPT !.phase = "stopped", !.exit = path]
    /\ pool' = f.pool
    /\ conns' = f.conns
    /\ UNCHANGED <<tables, dbUp, last, inflight>>

\* await server.run() ends and main() leaves through its finally block
MainExit ==
    /\ server.phase = "running"
    /\ \E path \in ExitPaths : Stopped(path, MainFinally(path, server, pool, conns))

\* a request is dispatched to its handler while the request loop runs
Completed(handler, input, r) ==
    /\ server.phase = "running"
    /\ pool' = r.w.pool
    /\ conns' = r.w.conns
    /\ tables' = r.w.tables
    /\ last' = [handler |-> handler, input |-> input, outcome |-> r.outcome,
                trace |-> r.w.trace, before |-> tables, poolBefore |-> pool,
                poolAfter |-> r.w.pool, info |-> r.info]
    /\ UNCHANGED <<dbUp, server, inflight>>

ListResources ==
    \E dieAt \in FaultSteps :
        Completed("list_resources", NoInput, handle_list_resources(World, dieAt))

ReadResource ==
    \E uri \in UriInputs, dieAt \in FaultSteps :
        Completed("read_resource", [NoInput EXCEPT !.uri = uri],
                  handle_read_resource(World, uri, dieAt))

ListTools ==
    Completed("list_tools", NoInput, handle_list_tools(World))

CallTool ==
    \E name \in ToolNames, arguments \in ArgumentDicts, dieAt \in FaultSteps :
        Completed("call_tool", [NoInput EXCEPT !.name = name, !.arguments = arguments],
                  handle_call_tool(World, name, arguments, dieAt))

\* the database server stops: every session it held is gone, and new
\* connections are refused until it is back
ServerDown ==
    /\ dbUp
    /\ dbUp' = FALSE
    /\ conns' = [c \in ConnIds |->
                    IF conns[c].st = "open"
                    THEN [st |-> "broken", tx |-> "idle", ro |-> FALSE, view |-> {}]
                    ELSE conns[c]]
    /\ UNCHANGED <<pool, tables, last, server, inflight>>

ServerUp ==
    /\ ~dbUp
    /\ dbUp' = TRUE
    /\ UNCHANGED <<pool, conns, tables, last, server, inflight>>

Next ==
    \/ Startup
    \/ ListResources
    \/ ReadResource
    \/ ListTools
    \/ CallTool
    \/ ServerDown
    \/ ServerUp
    \/ MainExit

Spec == Init /\ [][Next]_vars

----------------------------------------------------------------------------
(* The pool under borrowers that overlap.  The handlers hold a connection  *)
(* only within one uninterrupted invocation; here each getconn and each    *)
(* putconn is a step of its own, as it would be for invocations that       *)
(* suspend between their acquire and their release.                        *)

\* borrowers that may be in flight at once
MaxInflight == 6

RECURSIVE SumOver(_, _)
SumOver(f, S) ==
    IF S = {} THEN 0
    ELSE LET c == CHOOSE x \in S : TRUE IN f[c] + SumOver(f, S \ {c})

Held == SumOver(inflight, ConnIds)

Borrowed(g) ==
    /\ pool' = g.w.pool
    /\ conns' = g.w.conns
    /\ inflight' = IF g.ok THEN [inflight EXCEPT ![g.conn] = @ + 1] ELSE inflight
    /\ last' = [handler |-> "getconn", input |-> NoInput,
                outcome |-> IF g.ok THEN Return("conn") ELSE Raise(g.err),
                trace |-> g.w.trace, before |-> tables, poolBefore |-> pool,
                poolAfter |-> g.w.pool, info |-> {}]
    /\ UNCHANGED <<tables, dbUp, server>>

\* an invocation reaches conn = self.pool.getconn()
PoolAcquire ==
    /\ server.phase = "running"
    /\ Held < MaxInflight
    /\ Borrowed(Acquire(World))

GivenBack(c, w) ==
    /\ pool' = w.pool
    /\ conns' = w.conns
    /\ inflight' = [inflight EXCEPT ![c] = @ - 1]
    /\ last' = [handler |-> "putconn", input |-> NoInput, outcome |-> Return("none"),
                trace |-> w.trace, before |-> tables, poolBefore |-> pool,
                poolAfter |-> w.pool, info |-> {}]
    /\ UNCHANGED <<tables, dbUp, server>>

\* an invocation reaches self.pool.putconn(conn)
PoolRelease ==
    /\ server.phase = "running"
    /\ \E c \in ConnIds : inflight[c] > 0 /\ GivenBack(c, Release(World, c))

\* an invocation loses its connection at a round trip
ConnectionLost ==
    /\ server.phase = "running"
    /\ \E c \in ConnIds :
           /\ inflight[c] > 0
           /\ conns[c].st \in {"open", "broken"}
           /\ conns' = [conns EXCEPT ![c] = ClosedConn]
    /\ UNCHANGED <<pool, tables, dbUp, last, server, inflight>>

PoolNext ==
    \/ Startup
    \/ PoolAcquire
    \/ PoolRelease
    \/ ConnectionLost

PoolSpec == Init /\ [][PoolNext]_vars

----------------------------------------------------------------------------
(* Reading the record of the last invocation *)

Args   == last.input.arguments
RawSql == DictGet(Args, "sql", <<>>)

IsQueryCall == last.handler = "call_tool" /\ last.input.name = "query"

\* empty or whitespace-only
Blank(s) == \A i \in 1..Len(s) : s[i] \in Whitespace

\* s is, after leading whitespace, the word select in any mix of cases
SelectLetters == <<{"s","S"}, {"e","E"}, {"l","L"}, {"e","E"}, {"c","C"}, {"t","T"}>>
SelectPrefixed(s) ==
    \E i \in 0..Len(s) :
        /\ \A k \in 1..i : s[k] \in Whitespace
        /\ Len(s) >= i + 6
        /\ \A k \in 1..6 : s[i + k] \in SelectLetters[k]

AcceptedQueryCall == IsQueryCall /\ SelectPrefixed(RawSql)

Positions(op) == {i \in 1..Len(last.trace) : last.trace[i].op = op}
PositionsOk(op, ok) == {i \in Positions(op) : last.trace[i].ok = ok}

DatabaseOps == {"begin_ro", "execute", "fetchall", "rollback",
                "catalog_tables", "catalog_columns", "catalog_constraints"}
CatalogOps  == {"catalog_tables", "catalog_columns", "catalog_constraints"}
QueryOps    == {"begin_ro", "execute", "fetchall", "rollback"}

FailedOps(ops) == {i \in 1..Len(last.trace) : last.trace[i].op \in ops /\ ~last.trace[i].ok}

\* the invocation obtained a connection and its last call hands that
\* connection back
ReleasedLast ==
    /\ PositionsOk("getconn", TRUE) = {1}
    /\ Positions("putconn") = {Len(last.trace)}
    /\ last.trace[Len(last.trace)].conn = last.trace[1].conn
    /\ pool.used = {}

----------------------------------------------------------------------------
(* C1: after a call-tool invocation whose SQL is accepted, the committed   *)
(* state of the database is what it was before the invocation.             *)
C1_CommittedStateUnchanged ==
    AcceptedQueryCall => tables = last.before

C3_StatementInsideTransaction ==
    last.handler = "call_tool" =>
        /\ \A i \in Positions("execute") :
               \E j \in PositionsOk("begin_ro", TRUE) :
                   j < i /\ last.trace[j].conn = last.trace[i].conn
        /\ PositionsOk("begin_ro", FALSE) # {} => Positions("execute") = {}
        /\ \A j \in PositionsOk("begin_ro", TRUE) :
               \E i \in Positions("execute"), r \in Positions("rollback"),
                  p \in Positions("putconn") :
                   /\ j < i /\ i < r /\ r < p
                   /\ last.trace[r].conn = last.trace[j].conn
                   /\ last.trace[p].conn = last.trace[j].conn

\* the statement failed inside the transaction and the rollback followed
C3_Witness ==
    /\ last.handler = "call_tool"
    /\ PositionsOk("begin_ro", TRUE) # {}
    /\ PositionsOk("execute", FALSE) # {}
    /\ Positions("rollback") # {}

(* C4: call-tool 'query' with an empty, whitespace-only or absent sql      *)
(* fails with EmptyQuery; no acquire, no release, no statement, the pool   *)
(* as it was.                                                              *)
C4_EmptyQueryRejected ==
    (IsQueryCall /\ Blank(RawSql)) =>
        /\ last.outcome = Raise("EmptyQuery")
        /\ last.trace = <<>>
        /\ last.poolAfter = last.poolBefore

\* a whitespace-only sql was rejected
C4_Witness ==
    /\ IsQueryCall
    /\ RawSql = sqlBlank
    /\ last.outcome = Raise("EmptyQuery")

(* C5: a non-empty sql is accepted for execution iff, trimmed and          *)
(* lower-cased, it begins with 'select'; every other non-empty sql fails   *)
(* with NonSelectQuery, with no acquire and no statement sent.             *)
C5_SelectPrefixDecides ==
    (IsQueryCall /\ ~Blank(RawSql)) =>
        /\ SelectPrefixed(RawSql) <=> Positions("getconn") # {}
        /\ SelectPrefixed(RawSql) => last.outcome # Raise("NonSelectQuery")
        /\ ~SelectPrefixed(RawSql) =>
               /\ last.outcome = Raise("NonSelectQuery")
               /\ last.trace = <<>>
               /\ last.poolAfter = last.poolBefore

\* a read-only statement that begins with WITH was rejected
C5_Witness ==
    /\ IsQueryCall
    /\ RawSql = sqlWithSelect
    /\ last.outcome = Raise("NonSelectQuery")

(* C6, as stated: call-tool 'query' with 'DROP TABLE users' returns a      *)
(* normal tool response (it does not end in a handler failure) and the     *)
(* database is unchanged.                                                  *)
C6_RejectionIsResponse ==
    (IsQueryCall /\ RawSql = sqlDropUsers) =>
        /\ last.outcome.kind = "return"
        /\ tables = last.before

(* C6, amended: call-tool 'query' with 'DROP TABLE users' ends in a        *)
(* handler failure that carries the NonSelectQuery error, and the database *)
(* is unchanged.                                                           *)
C6_RejectionIsFailure ==
    (IsQueryCall /\ RawSql = sqlDropUsers) =>
        /\ last.outcome = Raise("NonSelectQuery")
        /\ tables = last.before

\* the DROP TABLE was sent while the table exists, and it still exists
C6_Witness ==
    /\ IsQueryCall
    /\ RawSql = sqlDropUsers
    /\ tUsers \in last.before
    /\ tUsers \in tables

(* C7: in a call-tool invocation with accepted SQL, a driver failure at    *)
(* the transaction start, the statement, the fetch or the rollback makes   *)
(* the handler return a text response with the error instead of raising,   *)
(* and the connection is released.                                         *)
C7_QueryFailureIsText ==
    (AcceptedQueryCall /\ FailedOps(QueryOps) # {}) =>
        /\ last.outcome = Return("error_text")
        /\ ReleasedLast

\* the statement and the fetch succeeded and the rollback failed
C7_Witness ==
    /\ AcceptedQueryCall
    /\ PositionsOk("fetchall", TRUE) # {}
    /\ PositionsOk("rollback", FALSE) # {}

(* C8: when acquire fails, the handler ends as a failure that carries the  *)
(* error acquire raised, not an error of the cleanup path and not a        *)
(* response.                                                               *)
C8_AcquireFailureSurfaces ==
    \A i \in PositionsOk("getconn", FALSE) : last.outcome = Raise(last.trace[i].err)

(* C9: in list-resources and read-resource a driver failure of a catalog   *)
(* query leaves the handler as a failure carrying that database error, and *)
(* the connection is released before.                                      *)
C9_CatalogFailurePropagates ==
    (last.handler \in {"list_resources", "read_resource"} /\ FailedOps(CatalogOps) # {}) =>
        /\ \A i \in FailedOps(CatalogOps) : last.outcome = Raise(last.trace[i].err)
        /\ last.outcome.value \in Psycopg2Errors
        /\ ReleasedLast

\* the second catalog query of read-resource failed
C9_Witness ==
    /\ last.handler = "read_resource"
    /\ PositionsOk("catalog_columns", TRUE) # {}
    /\ PositionsOk("catalog_constraints", FALSE) # {}

(* C10: read-resource with a URI of fewer than two path segments fails     *)
(* with InvalidResourceURI (the IndexError of the extraction); for every   *)
(* other URI both catalog queries use the second-to-last path segment.     *)
UriScheme == <<"p","o","s","t","g","r","e","s",":","/","/">>
RECURSIVE NonEmptyParts(_)
NonEmptyParts(ps) ==
    IF ps = <<>> THEN <<>>
    ELSE IF Head(ps) = <<>> THEN NonEmptyParts(Tail(ps))
    ELSE <<Head(ps)>> \o NonEmptyParts(Tail(ps))
\* the segments of the path of a URI: what follows the authority
PathSegments(uri) ==
    IF StartsWith(uri, UriScheme)
    THEN NonEmptyParts(Tail(Split(SubSeq(uri, Len(UriScheme) + 1, Len(uri)), "/")))
    ELSE NonEmptyParts(Split(uri, "/"))
SegmentsOfLast == PathSegments(last.input.uri)
C10_TableNameFromUri ==
    last.handler = "read_resource" =>
        IF Len(SegmentsOfLast) < 2
        THEN last.outcome = Raise("IndexError") /\ last.trace = <<>>
        ELSE \A i \in 1..Len(last.trace) :
                 last.trace[i].op \in CatalogOps =>
                     last.trace[i].arg = SegmentsOfLast[Len(SegmentsOfLast) - 1]

----------------------------------------------------------------------------
\* the connections that are open on the client side
OpenConns == {c \in ConnIds : conns[c].st \in {"open", "broken"}}

(* C11: the pool never holds more than maxconn connections, idle plus      *)
(* checked out, and no connection is open outside it; a getconn made while *)
(* maxconn connections are checked out fails with PoolError and leaves the *)
(* pool as it was.                                                         *)
C11_PoolBounded ==
    /\ Cardinality(Pooled(pool)) \in 0..maxconn
    /\ Len(pool.idle) + Cardinality(pool.used) <= maxconn
    /\ OpenConns \subseteq Pooled(pool)
    /\ (last.handler = "getconn" /\ Cardinality(last.poolBefore.used) = maxconn) =>
           /\ last.outcome = Raise("PoolError")
           /\ last.poolAfter = last.poolBefore

\* a getconn was made while maxconn connections were checked out
C11_Witness ==
    /\ last.handler = "getconn"
    /\ Cardinality(last.poolBefore.used) = maxconn
    /\ last.outcome = Raise("PoolError")
    /\ Cardinality(pool.used) = maxconn

(* C12: with borrowers that overlap, no connection is held by two of them  *)
(* at once: a connection is held by at most one borrower, exactly the      *)
(* held connections are marked checked out, and a checked-out connection   *)
(* is not in the idle list from which getconn hands out.                   *)
C12_NeverLentTwice ==
    \A c \in ConnIds :
        /\ inflight[c] <= 1
        /\ inflight[c] = 1 <=> c \in pool.used
        /\ c \in pool.used => \A i \in 1..Len(pool.idle) : pool.idle[i] # c

\* getconn handed out a connection that had been held and given back
\* before, while another borrower holds a connection
C12_Witness ==
    /\ last.handler = "getconn"
    /\ last.outcome.kind = "return"
    /\ last.poolBefore.idle # <<>>
    /\ last.poolBefore.used # {}
    /\ Cardinality(pool.used) >= 2

----------------------------------------------------------------------------
Handlers == {"list_resources", "read_resource", "list_tools", "call_tool"}

\* the invocations that end before the pool is reached: list-tools, a
\* call-tool whose arguments are rejected, a read-resource whose uri has no
\* second-to-last piece
EndsBeforePool ==
    \/ last.handler = "list_tools"
    \/ last.handler = "call_tool" /\ ~AcceptedQueryCall
    \/ last.handler = "read_resource" /\ \A i \in 1..Len(last.input.uri) : last.input.uri[i] # "/"

(* C13, as stated: every invocation of each of the four handlers obtains   *)
(* exactly one connection and releases it, whichever way it exits.         *)
C13_EveryInvocationAcquiresOne ==
    last.handler \in Handlers =>
        /\ Cardinality(PositionsOk("getconn", TRUE)) = 1
        /\ Cardinality(Positions("putconn")) = 1

(* C13, amended: list-resources, read-resource with a uri that contains a  *)
(* '/', and call-tool with accepted arguments make exactly one acquire     *)
(* call, as their first call; when it succeeds they release that           *)
(* connection exactly once, as their last call, whichever way they exit,   *)
(* and when it fails they release nothing.  list-tools and the invocations *)
(* rejected before the pool is reached acquire and release nothing.        *)
C13_AcquiresOnceWhenPoolIsReached ==
    last.handler \in Handlers =>
        IF EndsBeforePool
        THEN Positions("getconn") = {} /\ Positions("putconn") = {}
        ELSE /\ Positions("getconn") = {1}
             /\ IF last.trace[1].ok
                THEN /\ Len(last.trace) > 1
                     /\ Positions("putconn") = {Len(last.trace)}
                     /\ last.trace[Len(last.trace)].conn = last.trace[1].conn
                ELSE Positions("putconn") = {}

\* list-resources lost its connection at the catalog query and gave the
\* connection back all the same
C13_Witness ==
    /\ last.handler = "list_resources"
    /\ last.outcome = Raise("OperationalError")
    /\ Len(last.trace) = 3
    /\ last.trace[1].op = "getconn" /\ last.trace[1].ok
    /\ last.trace[2].op = "catalog_tables" /\ ~last.trace[2].ok
    /\ last.trace[3].op = "putconn"

----------------------------------------------------------------------------
(* C14: call-tool with a name other than "query" fails with UnknownTool    *)
(* whatever its arguments are, without a call on the pool or on a          *)
(* connection, and leaves the pool and the tables as they were.            *)
C14_UnknownToolRejected ==
    (last.handler = "call_tool" /\ last.input.name # "query") =>
        /\ last.outcome = Raise("UnknownTool")
        /\ last.trace = <<>>
        /\ last.poolAfter = last.poolBefore
        /\ tables = last.before

\* an unknown tool was called with a sql argument that the query tool
\* would have rejected as empty, and with one it would have run
C14_Witness ==
    /\ last.handler = "call_tool"
    /\ last.input.name = "delete_all"
    /\ RawSql \in {sqlBlank, sqlCommitDrop}
    /\ last.outcome = Raise("UnknownTool")

----------------------------------------------------------------------------
\* the positions of step x in the record of the constructor
StartupSteps(x) == {i \in 1..Len(server.log) : server.log[i] = x}

(* C15: the pool is created (or its creation attempted) only after the     *)
(* probe connection was opened and closed again, and the handlers are      *)
(* registered only after the pool was created; when the probe or the pool  *)
(* creation fails, startup ends with the connection error, there is no     *)
(* pool and no open connection, no handler is registered, no request is    *)
(* served and nothing is drained.                                          *)
C15_PoolOnlyAfterProbe ==
    /\ \A i \in StartupSteps("pool_created") \cup StartupSteps("pool_failed") :
           \E j \in StartupSteps("probe_opened"), k \in StartupSteps("probe_closed") :
               j < k /\ k < i
    /\ \A i \in StartupSteps("handlers_registered") :
           \E j \in StartupSteps("pool_created") : j < i
    /\ server.hasPool <=> StartupSteps("pool_created") # {}
    /\ server.registered <=> StartupSteps("handlers_registered") # {}
    /\ ~server.hasPool => pool = NoPool /\ OpenConns = {}
    /\ (StartupSteps("probe_failed") # {} \/ StartupSteps("pool_failed") # {}) =>
           /\ server.phase = "aborted"
           /\ server.exit = "OperationalError"
           /\ ~server.constructed /\ ~server.hasPool /\ ~server.registered
           /\ server.drains = 0
           /\ last.handler = "none"
    /\ last.handler # "none" => server.registered

\* the probe succeeded and the pool creation failed
C15_Witness ==
    /\ server.phase = "aborted"
    /\ server.log = <<"probe_opened", "probe_closed", "pool_failed">>
    /\ ~dbUp

----------------------------------------------------------------------------
(* C16: main() drains the pool exactly once on every path on which it      *)
(* leaves the request loop of a constructed server, and not before; once   *)
(* drained, the pool is closed, every connection it holds is closed, none  *)
(* is open anywhere, and an acquire is refused with PoolError.             *)
C16_DrainedOnceAtShutdown ==
    /\ server.drains = IF server.phase = "stopped" THEN 1 ELSE 0
    /\ pool.closed <=> server.phase = "stopped"
    /\ server.phase = "stopped" =>
           /\ server.constructed
           /\ server.exit \in ExitPaths
           /\ \A c \in Pooled(pool) : conns[c].st = "closed"
           /\ OpenConns = {}
           /\ ~getconn(pool, conns, dbUp).ok
           /\ getconn(pool, conns, dbUp).err = "PoolError"

\* the request loop raised after requests were served, and the idle
\* connection of the pool was closed by the drain
C16_Witness ==
    /\ server.phase = "stopped"
    /\ server.exit = "error"
    /\ server.drains = 1
    /\ last.handler # "none"
    /\ pool.idle # <<>>
    /\ dbUp

----------------------------------------------------------------------------
\* the connection the last invocation gave back is idle in the pool again
KeptIdle ==
    \E p \in Positions("putconn") : last.trace[p].conn \in Pooled([last.poolAfter EXCEPT !.used = {}])

----------------------------------------------------------------------------
(* C18: within an invocation every database call is made on a connection   *)
(* that an earlier, successful getconn of the same invocation returned,    *)
(* and before any putconn; every putconn is given a connection that an     *)
(* earlier successful getconn of the invocation returned; and nothing      *)
(* follows the putconn.                                                    *)
C18_AcquireStatementsRelease ==
    last.handler \in Handlers =>
        /\ \A i \in 1..Len(last.trace) :
               last.trace[i].op \in DatabaseOps =>
                   /\ \E g \in PositionsOk("getconn", TRUE) :
                          g < i /\ last.trace[g].conn = last.trace[i].conn
                   /\ \A p \in Positions("putconn") : i < p
        /\ \A p \in Positions("putconn") :
               /\ last.trace[p].conn \in ConnIds
               /\ \E g \in PositionsOk("getconn", TRUE) :
                      g < p /\ last.trace[g].conn = last.trace[p].conn
               /\ p = Len(last.trace)
        /\ \A g \in PositionsOk("getconn", FALSE) : g = Len(last.trace)

\* read-resource ran both catalog queries between its getconn and its
\* putconn
C18_Witness ==
    /\ last.handler = "read_resource"
    /\ Len(last.trace) = 4
    /\ last.trace[1].op = "getconn" /\ last.trace[1].ok
    /\ last.trace[2].op = "catalog_columns" /\ last.trace[2].ok
    /\ last.trace[3].op = "catalog_constraints" /\ last.trace[3].ok
    /\ last.trace[4].op = "putconn"
    /\ last.trace[4].conn = last.trace[1].conn

----------------------------------------------------------------------------
----------------------------------------------------------------------------
\* host values of resource URIs
Hosts == {Host, <<"d","b">>}

(* C20: list-resources advertises postgres://<host>/T/schema for every     *)
(* table T of the catalog, and read-resource, given the URI advertised for *)
(* a table name T under any host, extracts and looks up exactly T, names   *)
(* that contain '/' included.                                              *)
C20_AdvertisedUriReadsSameTable ==
    /\ (last.handler = "list_resources" /\ last.outcome.kind = "return") =>
           last.info = {ResourceUri(Host, T) : T \in last.before}
    /\ last.handler = "read_resource" =>
           \A h \in Hosts, T \in last.before :
               last.input.uri = ResourceUri(h, T) =>
                   /\ TableNameOf(last.input.uri) = [ok |-> TRUE, name |-> T]
                   /\ \A i \in 1..Len(last.trace) :
                          last.trace[i].op \in CatalogOps => last.trace[i].arg = T

====
